---- MODULE Spec2Model ----
(***************************************************************************)
(* Model of the FitTrack Pro browser client (ConnieBWine/Workout_App):     *)
(*   - services/api.js           the fetch wrapper fetchApi and its        *)
(*                               get/post/put/patch/del wrappers           *)
(*   - services/workoutService   createExerciseSequence                    *)
(*   - context/WorkoutContext    workoutReducer and the WorkoutProvider    *)
(*                               functions                                 *)
(*   - ExerciseTracker           the exercise-data poll and the start and  *)
(*                               stop mutations                            *)
(*                                                                         *)
(* JavaScript objects are records; a property that is undefined is a field *)
(* that is not in the record's DOMAIN.  Strings that the code inspects     *)
(* (startsWith, includes, toLowerCase, replace) are sequences.             *)
(***************************************************************************)
EXTENDS Integers, Sequences, FiniteSets, TLC

VARIABLES
  \* ---- services/api.js: one fetchApi call and the network ----
  apiEnv,          \* process.env.REACT_APP_API_URL (<<>> when unset or empty)
  apiPc,           \* "idle" | "awaiting" (fetch in flight) | "settled"
  apiEndpoint,     \* the endpoint argument of the call
  apiRequest,      \* [url, config] handed to fetch
  apiResponse,     \* what fetch produced for the call
  apiResult,       \* what the call's promise settled with
  callsStarted,    \* number of fetchApi calls made
  requestsSent,    \* number of HTTP requests handed to fetch
  \* ---- services/workoutService: one call of createExerciseSequence ----
  seqDay,          \* the workoutDay argument
  seqPc,           \* "called" | "returned"
  seqOut,          \* the returned list
  \* ---- context/WorkoutContext: the WorkoutProvider ----
  state,              \* the reducer state (useReducer)
  showExerciseModal,  \* useState(false)
  showSummaryModal,   \* useState(false)
  rendered,           \* the state fields the provider functions of the last
                      \* render closed over and read
  loadPc,             \* loadCurrentWorkout: "mounted" | "awaiting" | "done"
  \* ---- ExerciseTracker ----
  selectedExercise,   \* useState(null): "none" or the id of the exercise
  exerciseActive,     \* useState(false)
  exerciseCompleted,  \* useState(false)
  exerciseResults,    \* useState(null)
  exerciseData,       \* data of the exerciseData query
  startsPending,      \* exercise/start requests in flight
  stopsPending,       \* exercise/stop requests in flight
  pollPc,             \* the query's fetch: "idle" | "requesting" | "retry wait"
  failureCount,       \* failed attempts of the fetch under way
  sinceRefetch,       \* ms since the query's refetch timer was armed or fired
  lastSettled,        \* the last start that succeeded or stop that settled
  \* ---- WorkoutPlanner and the router ----
  route,              \* the location the router shows
  plansStarting       \* workout/plans/:id/start requests in flight (0 or 1)

apiVars == <<apiEnv, apiPc, apiEndpoint, apiRequest, apiResponse, apiResult,
             callsStarted, requestsSent>>

seqVars == <<seqDay, seqPc, seqOut>>

ctxVars == <<state, showExerciseModal, showSummaryModal, rendered, loadPc>>

trkVars == <<selectedExercise, exerciseActive, exerciseCompleted, exerciseResults,
             exerciseData, startsPending, stopsPending, pollPc, failureCount, sinceRefetch,
             lastSettled>>

plnVars == <<route, plansStarting>>

\* What the actions of one part of the client leave alone.
notApi == <<seqVars, ctxVars, trkVars, plnVars>>
notSeq == <<apiVars, ctxVars, trkVars, plnVars>>
notCtx == <<apiVars, seqVars, trkVars, plnVars>>
notTrk == <<apiVars, seqVars, ctxVars, plnVars>>
notPln == <<apiVars, seqVars, trkVars>>

vars == <<apiEnv, apiPc, apiEndpoint, apiRequest, apiResponse, apiResult,
          callsStarted, requestsSent, seqDay, seqPc, seqOut,
          state, showExerciseModal, showSummaryModal, rendered, loadPc,
          selectedExercise, exerciseActive, exerciseCompleted, exerciseResults,
          exerciseData, startsPending, stopsPending, pollPc, failureCount, sinceRefetch,
          lastSettled, route, plansStarting>>

\* Number of fetchApi calls a behaviour makes.
MaxCalls == 2
\* Longest exercises array of a workout day.
MaxExercises == 2
\* Exercises completed in one session before the model stops counting.
MaxCompleted == 2
\* Start requests, and stop requests, in flight at once.
MaxPending == 2

(***************************************************************************)
(* Strings                                                                 *)
(***************************************************************************)
\* String.prototype.startsWith
StartsWith(s, p) == Len(s) >= Len(p) /\ SubSeq(s, 1, Len(p)) = p

\* String.prototype.includes
Includes(s, p) ==
  \E i \in 1..(Len(s) - Len(p) + 1) : SubSeq(s, i, i + Len(p) - 1) = p

(***************************************************************************)
(* services/api.js                                                         *)
(***************************************************************************)
\* const API_BASE_URL = process.env.REACT_APP_API_URL || '/api'
API_BASE_URL == IF apiEnv # <<>> THEN apiEnv ELSE <<"/", "a", "p", "i">>

Endpoints == { <<"/", "x">>, <<"x">> }

\* Request payloads: `v` names the payload.
ObjBody  == [type |-> "object", v |-> "payload"]
StrBody  == [type |-> "string", v |-> "raw"]
EmptyStr == [type |-> "string", v |-> ""]
NullBody == [type |-> "null"]
UndefinedBody == [type |-> "undefined"]
Payloads == {ObjBody, StrBody, EmptyStr, NullBody, UndefinedBody}

\* if (options.body && typeof options.body === 'object')
Truthy(b) == b.type = "object" \/ (b.type = "string" /\ b.v # "")

\* JSON.stringify(options.body)
JSONstringify(b) == [type |-> "string", json |-> b.v]

NoOptions == <<>>
OptionSets ==
  { NoOptions,
    [headers |-> [Authorization |-> "tok"]],
    [headers |-> [ContentType |-> "text/plain"]],
    [body |-> StrBody, credentials |-> "include"] }

\* url, headers and config of fetchApi (lines 24-40)
RequestOf(endpoint, options) ==
  LET url == API_BASE_URL \o
               (IF StartsWith(endpoint, <<"/">>) THEN endpoint ELSE <<"/">> \o endpoint)
      headers == (IF "headers" \in DOMAIN options THEN options.headers ELSE <<>>)
                   @@ [ContentType |-> "application/json"]
      config == [headers |-> headers] @@ options
      sent == IF "body" \in DOMAIN options /\ Truthy(options.body)
                 /\ options.body.type = "object"
              THEN [body |-> JSONstringify(options.body)] @@ config
              ELSE config
  IN [url |-> url, config |-> sent]

\* ---- what fetch can produce ----
\* Parsed JSON bodies.
ObjErr      == [type |-> "object", error |-> "boom"]
ObjEmptyErr == [type |-> "object", error |-> ""]
ObjNoErr    == [type |-> "object", detail |-> "d"]
JsonNull    == [type |-> "null"]
JsonValues  == {ObjErr, ObjEmptyErr, ObjNoErr, JsonNull}

\* A body: its text, and the value response.json() gives when the text parses.
Bodies ==
  { [text |-> "json", parses |-> TRUE, json |-> v] : v \in JsonValues }
    \cup { [text |-> "<html>", parses |-> FALSE] }

StatusCodes == {200, 204, 404}
StatusTexts == {"", "Status Text"}
ContentLengths == { [present |-> FALSE], [present |-> TRUE, v |-> "0"],
                    [present |-> TRUE, v |-> "12"] }
ContentTypes ==
  { [present |-> FALSE],
    [present |-> TRUE, v |-> <<"application/json">>],
    [present |-> TRUE, v |-> <<"application/json", ";", "charset=utf-8">>],
    [present |-> TRUE, v |-> <<"text/html">>] }

\* Response.ok is true exactly for a status in 200..299.
Responses ==
  { [network |-> "ok", status |-> s, ok |-> (s >= 200 /\ s <= 299),
     statusText |-> st, contentLength |-> cl, contentType |-> ct, body |-> b] :
      s \in StatusCodes, st \in StatusTexts, cl \in ContentLengths,
      ct \in ContentTypes, b \in Bodies }

\* fetch rejects (no response at all).
NetworkFailure == [network |-> "failed"]

\* (mutant) the catch block re-throws the error as it caught it.
RethrowBare(error, endpoint, request) == [kind |-> "thrown", error |-> error]

\* catch (error) { error.endpoint = endpoint; error.request = { url, ...config }; throw error }
Rethrow(error, endpoint, request) ==
  [kind |-> "thrown",
   error |-> [endpoint |-> endpoint,
              request |-> request.config @@ [url |-> request.url]] @@ error]

\* The body of the try block for a non-ok response (lines 47-62).
NotOkError(r) ==
  LET errorData == IF r.body.parses THEN r.body.json
                   ELSE [type |-> "object", error |-> r.statusText]
  IN IF errorData.type = "null"
     THEN \* errorData.error on null
          [name |-> "TypeError", message |-> "Cannot read properties of null"]
     ELSE [name |-> "Error",
           message |-> IF "error" \in DOMAIN errorData /\ errorData.error # ""
                       THEN errorData.error ELSE "API request failed",
           status |-> r.status,
           statusText |-> r.statusText,
           data |-> errorData]

\* (mutant) the JSON branch is tried before the empty-response branch.
FetchApiResultJsonFirst(endpoint, request, r) ==
  IF r.network = "failed"
  THEN Rethrow([name |-> "TypeError", message |-> "Failed to fetch"], endpoint, request)
  ELSE IF ~r.ok
  THEN Rethrow(NotOkError(r), endpoint, request)
  ELSE IF r.contentType.present /\ Includes(r.contentType.v, <<"application/json">>)
  THEN IF r.body.parses
       THEN [kind |-> "returned", value |-> r.body.json]
       ELSE Rethrow([name |-> "SyntaxError", message |-> "Unexpected token"],
                    endpoint, request)
  ELSE IF r.status = 204 \/ (r.contentLength.present /\ r.contentLength.v = "0")
  THEN [kind |-> "returned", value |-> JsonNull]
  ELSE [kind |-> "returned", value |-> [type |-> "text", text |-> r.body.text]]

\* What the promise of fetchApi settles with, given what fetch produced.
FetchApiResult(endpoint, request, r) ==
  IF r.network = "failed"
  THEN Rethrow([name |-> "TypeError", message |-> "Failed to fetch"], endpoint, request)
  ELSE IF ~r.ok
  THEN Rethrow(NotOkError(r), endpoint, request)
  ELSE IF r.status = 204 \/ (r.contentLength.present /\ r.contentLength.v = "0")
  THEN [kind |-> "returned", value |-> JsonNull]
  ELSE IF r.contentType.present /\ Includes(r.contentType.v, <<"application/json">>)
  THEN IF r.body.parses
       THEN [kind |-> "returned", value |-> r.body.json]
       ELSE Rethrow([name |-> "SyntaxError", message |-> "Unexpected token"],
                    endpoint, request)
  ELSE [kind |-> "returned", value |-> [type |-> "text", text |-> r.body.text]]

NoResult == [kind |-> "none"]

\* fetchApi up to `await fetch(url, config)`: one request is handed to fetch.
fetchApi(endpoint, options) ==
  /\ apiPc # "awaiting"
  /\ callsStarted < MaxCalls
  /\ callsStarted' = callsStarted + 1
  /\ requestsSent' = requestsSent + 1
  /\ apiEndpoint' = endpoint
  /\ apiRequest' = RequestOf(endpoint, options)
  /\ apiPc' = "awaiting"
  /\ apiResponse' = NoResult
  /\ apiResult' = NoResult
  /\ UNCHANGED <<apiEnv, notApi>>

\* A direct call of fetchApi.
CallFetchApi ==
  \E e \in Endpoints, o \in OptionSets : fetchApi(e, o)

get(endpoint, options) == fetchApi(endpoint, [method |-> "GET"] @@ options)
post(endpoint, data, options) ==
  fetchApi(endpoint, [method |-> "POST", body |-> data] @@ options)
put(endpoint, data, options) ==
  fetchApi(endpoint, [method |-> "PUT", body |-> data] @@ options)
patch(endpoint, data, options) ==
  fetchApi(endpoint, [method |-> "PATCH", body |-> data] @@ options)
del(endpoint, options) == fetchApi(endpoint, [method |-> "DELETE"] @@ options)

CallGet   == \E e \in Endpoints, o \in {NoOptions, [body |-> ObjBody]} : get(e, o)
CallPost  == \E e \in Endpoints, d \in Payloads : post(e, d, NoOptions)
CallPut   == \E e \in Endpoints : put(e, ObjBody, NoOptions)
CallPatch == \E e \in Endpoints : patch(e, StrBody, NoOptions)
CallDel   == \E e \in Endpoints : del(e, NoOptions)

\* (mutant) a rejected fetch is tried again.
FetchSettlesRetrying ==
  /\ apiPc = "awaiting"
  /\ \E r \in Responses \cup {NetworkFailure} :
       IF r.network = "failed" /\ requestsSent <= callsStarted
       THEN /\ requestsSent' = requestsSent + 1
            /\ UNCHANGED <<apiPc, apiResponse, apiResult>>
       ELSE /\ apiResponse' = r
            /\ apiResult' = FetchApiResult(apiEndpoint, apiRequest, r)
            /\ apiPc' = "settled"
            /\ UNCHANGED requestsSent
  /\ UNCHANGED <<apiEnv, apiEndpoint, apiRequest, callsStarted, notApi>>

\* The awaited fetch settles and the rest of fetchApi runs.
FetchSettles ==
  /\ apiPc = "awaiting"
  /\ \E r \in Responses \cup {NetworkFailure} :
       /\ apiResponse' = r
       /\ apiResult' = FetchApiResult(apiEndpoint, apiRequest, r)
  /\ apiPc' = "settled"
  /\ UNCHANGED <<apiEnv, apiEndpoint, apiRequest, callsStarted, requestsSent, notApi>>

InitApi ==
  /\ apiEnv \in { <<>>, <<"h">> }
  /\ apiPc = "idle"
  /\ apiEndpoint = <<>>
  /\ apiRequest = NoResult
  /\ apiResponse = NoResult
  /\ apiResult = NoResult
  /\ callsStarted = 0
  /\ requestsSent = 0

\* The api variables while another part of the client is examined.
ApiIdle ==
  /\ apiEnv = <<>>
  /\ apiPc = "idle"
  /\ apiEndpoint = <<>>
  /\ apiRequest = NoResult
  /\ apiResponse = NoResult
  /\ apiResult = NoResult
  /\ callsStarted = 0
  /\ requestsSent = 0

(***************************************************************************)
(* services/workoutService: createExerciseSequence                         *)
(***************************************************************************)
\* JavaScript values of the fields that may hold a number, null or undefined.
Num(n) == [type |-> "number", num |-> n]
Null == [type |-> "null"]
Undefined == [type |-> "undefined"]

Whitespace == {" ", "\t"}

\* String.prototype.toLowerCase, one character
LowerChar(c) == CASE c = "A" -> "a" [] c = "B" -> "b" [] OTHER -> c

RECURSIVE ToLowerCase(_)
ToLowerCase(s) ==
  IF s = <<>> THEN <<>> ELSE <<LowerChar(Head(s))>> \o ToLowerCase(Tail(s))

\* s.replace(/\s+/g, '_'): every maximal run of whitespace becomes one '_'
RECURSIVE ReplaceWhitespaceRuns(_)
ReplaceWhitespaceRuns(s) ==
  IF s = <<>> THEN <<>>
  ELSE IF Head(s) \in Whitespace
       THEN IF Tail(s) # <<>> /\ Head(Tail(s)) \in Whitespace
            THEN ReplaceWhitespaceRuns(Tail(s))
            ELSE <<"_">> \o ReplaceWhitespaceRuns(Tail(s))
       ELSE <<Head(s)>> \o ReplaceWhitespaceRuns(Tail(s))

\* The exercises of a plan day as the backend sends them: a name, and
\* optionally sets, reps and is_timed.
ExerciseNames == { <<"A", " ", "\t", "b">>, <<"B">>, <<"a", " ", "b">> }
Exercises ==
  { n @@ st @@ rp @@ tm :
      n \in { [name |-> x] : x \in ExerciseNames },
      st \in { <<>>, [sets |-> 3] },
      rp \in { <<>>, [reps |-> 0], [reps |-> 12] },
      tm \in { <<>>, [is_timed |-> TRUE] } }

RECURSIVE SeqsUpTo(_, _)
SeqsUpTo(S, n) ==
  IF n = 0 THEN { <<>> }
  ELSE LET shorter == SeqsUpTo(S, n - 1)
       IN shorter \cup { Append(q, x) : q \in shorter, x \in S }

\* The workoutDay arguments: undefined, null, a day without exercises, a day
\* whose exercises is null or is an object that is no array, and days with
\* an exercises array.
WorkoutDays ==
  { [type |-> "undefined"], [type |-> "null"],
    [type |-> "object", day |-> "Day 1"],
    [type |-> "object", day |-> "Day 1", exercises |-> [kind |-> "null"]],
    [type |-> "object", day |-> "Day 1", exercises |-> [kind |-> "object"]] }
  \cup { [type |-> "object", day |-> "Day 1",
          exercises |-> [kind |-> "array", items |-> q]] :
            q \in SeqsUpTo(Exercises, MaxExercises) }

\* x || d for a numeric field that may be absent
OrElse(r, f, d) == IF f \in DOMAIN r /\ r[f] # 0 THEN r[f] ELSE d

\* the callback of exercises.map (lines 100-109)
SequenceItem(exercise) ==
  LET timed == "is_timed" \in DOMAIN exercise /\ exercise.is_timed
      reps == IF "reps" \in DOMAIN exercise THEN Num(exercise.reps) ELSE Undefined
  IN [id |-> ReplaceWhitespaceRuns(ToLowerCase(exercise.name)),
      name |-> exercise.name,
      sets |-> OrElse(exercise, "sets", 1),
      reps |-> OrElse(exercise, "reps", 10),
      is_timed |-> timed,
      target_duration |-> IF timed THEN reps ELSE Null,
      target_reps |-> IF ~timed THEN reps ELSE Null,
      completed |-> FALSE]

RECURSIVE MapItems(_)
MapItems(q) ==
  IF q = <<>> THEN <<>> ELSE <<SequenceItem(Head(q))>> \o MapItems(Tail(q))

\* (mutant) exercises without reps are left out of the sequence.
RECURSIVE MapItemsWithReps(_)
MapItemsWithReps(q) ==
  IF q = <<>> THEN <<>>
  ELSE (IF "reps" \in DOMAIN Head(q) /\ Head(q).reps # 0
        THEN <<SequenceItem(Head(q))>> ELSE <<>>) \o MapItemsWithReps(Tail(q))

createExerciseSequenceWithReps(workoutDay) ==
  IF \/ workoutDay.type # "object"
     \/ "exercises" \notin DOMAIN workoutDay
     \/ workoutDay.exercises.kind # "array"
  THEN <<>>
  ELSE MapItemsWithReps(workoutDay.exercises.items)

createExerciseSequence(workoutDay) ==
  IF \/ workoutDay.type # "object"              \* !workoutDay
     \/ "exercises" \notin DOMAIN workoutDay      \* !workoutDay.exercises
     \/ workoutDay.exercises.kind = "null"
     \/ workoutDay.exercises.kind # "array"      \* !Array.isArray(...)
  THEN <<>>
  ELSE MapItems(workoutDay.exercises.items)

\* The call returns.
CreateExerciseSequenceReturns ==
  /\ seqPc = "called"
  /\ seqOut' = createExerciseSequence(seqDay)
  /\ seqPc' = "returned"
  /\ UNCHANGED <<seqDay, notSeq>>

InitSeq ==
  /\ seqDay \in WorkoutDays
  /\ seqPc = "called"
  /\ seqOut = <<>>

SeqIdle ==
  /\ seqDay = [type |-> "undefined"]
  /\ seqPc = "returned"
  /\ seqOut = <<>>

NextSeq == CreateExerciseSequenceReturns

(***************************************************************************)
(* context/WorkoutContext.jsx                                              *)
(***************************************************************************)
\* const initialState (lines 13-38)
initialState ==
  [currentWorkout |-> Null,
   exerciseSequence |-> <<>>,
   currentExerciseIndex |-> -1,
   activeExercise |-> Null,
   sessionStartTime |-> Null,
   sessionStats |-> [completedExercises |-> 0, totalReps |-> 0,
                     totalDuration |-> 0, feedback |-> <<>>],
   isLoading |-> FALSE,
   error |-> Null]

\* array[index] || null
ItemAt(sequence, index) ==
  IF index >= 0 /\ index < Len(sequence) THEN sequence[index + 1] ELSE Null

\* new Date().toISOString()
IsoString(now) == [type |-> "string", iso |-> now]

\* case COMPLETE_EXERCISE (lines 87-108)
CompleteExercise(st, exerciseIndex, stats) ==
  LET updatedSequence ==
        IF ItemAt(st.exerciseSequence, exerciseIndex) # Null
        THEN [st.exerciseSequence EXCEPT ![exerciseIndex + 1] =
                [completed |-> TRUE, results |-> stats] @@ @]
        ELSE st.exerciseSequence
  IN [st EXCEPT
        !.exerciseSequence = updatedSequence,
        !.sessionStats =
           [completedExercises |-> st.sessionStats.completedExercises + 1,
            totalReps |-> st.sessionStats.totalReps + OrElse(stats, "repCount", 0),
            totalDuration |-> st.sessionStats.totalDuration + OrElse(stats, "duration", 0)]
             @@ st.sessionStats]

\* (mutant) SET_EXERCISE_SEQUENCE keeps the position.
SetSequenceKeepingPosition(st, payload) ==
  [st EXCEPT !.exerciseSequence = payload]

\* case SET_EXERCISE_SEQUENCE (lines 72-78)
SetSequence(st, payload) ==
  [st EXCEPT !.exerciseSequence = payload,
             !.currentExerciseIndex = -1,
             !.activeExercise = Null]

\* (mutant) SET_LOADING also clears the error, as SET_CURRENT_WORKOUT does.
SetLoadingClearingError(st, payload) ==
  [st EXCEPT !.isLoading = payload, !.error = Null]

\* case SET_LOADING (lines 142-146)
SetLoading(st, payload) == [st EXCEPT !.isLoading = payload]

\* (mutant) RESET_STATE keeps the current workout plan.
ResetStateKeepingWorkout(st) ==
  [initialState EXCEPT !.currentWorkout = st.currentWorkout]

\* case RESET_STATE (lines 155-156)
ResetState(st) == initialState

\* const workoutReducer (lines 63-161); `now` is the clock new Date() reads.
workoutReducer(st, action, now) ==
  CASE action.type = "SET_CURRENT_WORKOUT" ->
         [st EXCEPT !.currentWorkout = action.payload, !.error = Null]
    [] action.type = "SET_EXERCISE_SEQUENCE" ->
         SetSequence(st, action.payload)
    [] action.type = "SET_CURRENT_EXERCISE" ->
         [st EXCEPT !.currentExerciseIndex = action.payload,
                    !.activeExercise = ItemAt(st.exerciseSequence, action.payload)]
    [] action.type = "COMPLETE_EXERCISE" ->
         CompleteExercise(st, action.payload.exerciseIndex, action.payload.stats)
    [] action.type = "START_SESSION" ->
         [st EXCEPT !.sessionStartTime = IsoString(now),
                    !.sessionStats = [completedExercises |-> 0, totalReps |-> 0,
                                      totalDuration |-> 0, feedback |-> <<>>]]
    [] action.type = "END_SESSION" ->
         [st EXCEPT !.activeExercise = Null,
                    !.sessionStats = [endTime |-> IsoString(now),
                                      summary |-> action.payload] @@ @]
    [] action.type = "UPDATE_SESSION_STATS" ->
         [st EXCEPT !.sessionStats = action.payload @@ @]
    [] action.type = "SET_LOADING" -> SetLoading(st, action.payload)
    [] action.type = "SET_ERROR" ->
         [st EXCEPT !.error = action.payload, !.isLoading = FALSE]
    [] action.type = "RESET_STATE" -> ResetState(st)
    [] OTHER -> st

\* The fields of `state` that the provider functions read from their closure.
Closure(st) ==
  [currentExerciseIndex |-> st.currentExerciseIndex,
   exerciseSequenceLength |-> Len(st.exerciseSequence)]

\* React renders the provider again: its functions close over the new state.
Render ==
  /\ rendered # Closure(state)
  /\ rendered' = Closure(state)
  /\ UNCHANGED <<state, showExerciseModal, showSummaryModal, loadPc, notCtx>>

\* const setCurrentWorkout (lines 211-213)
SetCurrentWorkout(workout) ==
  /\ state' = workoutReducer(state, [type |-> "SET_CURRENT_WORKOUT", payload |-> workout], "")
  /\ UNCHANGED <<showExerciseModal, showSummaryModal, rendered, loadPc, notCtx>>

\* const setExerciseSequence (lines 220-222)
SetExerciseSequence(sequence) ==
  /\ state' = workoutReducer(state, [type |-> "SET_EXERCISE_SEQUENCE", payload |-> sequence], "")
  /\ UNCHANGED <<showExerciseModal, showSummaryModal, rendered, loadPc, notCtx>>

\* setCurrentExercise (lines 229-238) on the reducer state and exercise modal
setCurrentExercise(index) ==
  /\ state' = workoutReducer(state, [type |-> "SET_CURRENT_EXERCISE", payload |-> index], "")
  /\ showExerciseModal' = (index >= 0 /\ index < rendered.exerciseSequenceLength)

\* const setCurrentExercise (lines 229-238)
SetCurrentExercise(index) ==
  /\ setCurrentExercise(index)
  /\ UNCHANGED <<showSummaryModal, rendered, loadPc, notCtx>>

\* (mutant) the exercise is completed without recording its statistics.
CompleteCurrentExerciseNoResults(stats) ==
  /\ state.sessionStats.completedExercises < MaxCompleted
  /\ IF rendered.currentExerciseIndex >= 0
     THEN state' = CompleteExercise(state, rendered.currentExerciseIndex, <<>>)
     ELSE UNCHANGED state
  /\ UNCHANGED <<showExerciseModal, showSummaryModal, rendered, loadPc, notCtx>>

\* const completeCurrentExercise (lines 245-255)
CompleteCurrentExercise(stats) ==
  /\ state.sessionStats.completedExercises < MaxCompleted
  /\ IF rendered.currentExerciseIndex >= 0
     THEN state' = workoutReducer(state,
                     [type |-> "COMPLETE_EXERCISE",
                      payload |-> [exerciseIndex |-> rendered.currentExerciseIndex,
                                   stats |-> stats]], "")
     ELSE UNCHANGED state
  /\ UNCHANGED <<showExerciseModal, showSummaryModal, rendered, loadPc, notCtx>>

\* (mutant) the new session's counters are spread over the previous
\* sessionStats, so the endTime and summary of the previous session stay.
StartWorkoutSessionOverPrevious(now) ==
  /\ state' = [workoutReducer(state, [type |-> "START_SESSION"], now) EXCEPT
                 !.sessionStats = @ @@ state.sessionStats]
  /\ UNCHANGED <<showExerciseModal, showSummaryModal, rendered, loadPc, notCtx>>

\* const startWorkoutSession (lines 260-262)
StartWorkoutSession(now) ==
  /\ state' = workoutReducer(state, [type |-> "START_SESSION"], now)
  /\ UNCHANGED <<showExerciseModal, showSummaryModal, rendered, loadPc, notCtx>>

\* (mutant) ending the session leaves the active exercise in place.
EndWorkoutSessionKeepingActive(summary, now) ==
  /\ state' = [workoutReducer(state, [type |-> "END_SESSION", payload |-> summary], now)
                 EXCEPT !.activeExercise = state.activeExercise]
  /\ showSummaryModal' = TRUE
  /\ UNCHANGED <<showExerciseModal, rendered, loadPc, notCtx>>

\* const endWorkoutSession (lines 269-272)
EndWorkoutSession(summary, now) ==
  /\ state' = workoutReducer(state, [type |-> "END_SESSION", payload |-> summary], now)
  /\ showSummaryModal' = TRUE
  /\ UNCHANGED <<showExerciseModal, rendered, loadPc, notCtx>>

\* const updateSessionStats (lines 279-281)
UpdateSessionStats(stats) ==
  /\ state' = workoutReducer(state, [type |-> "UPDATE_SESSION_STATS", payload |-> stats], "")
  /\ UNCHANGED <<showExerciseModal, showSummaryModal, rendered, loadPc, notCtx>>

\* (mutant) at the end of the sequence the position wraps to the first exercise.
GoToNextExerciseWrapping ==
  /\ LET nextIndex == rendered.currentExerciseIndex + 1
     IN IF nextIndex < rendered.exerciseSequenceLength
        THEN setCurrentExercise(nextIndex) /\ UNCHANGED showSummaryModal
        ELSE /\ setCurrentExercise(0)
             /\ showSummaryModal' = TRUE
  /\ UNCHANGED <<rendered, loadPc, notCtx>>

\* const goToNextExercise (lines 286-295)
GoToNextExercise ==
  /\ LET nextIndex == rendered.currentExerciseIndex + 1
     IN IF nextIndex < rendered.exerciseSequenceLength
        THEN setCurrentExercise(nextIndex) /\ UNCHANGED showSummaryModal
        ELSE /\ showExerciseModal' = FALSE
             /\ showSummaryModal' = TRUE
             /\ UNCHANGED state
  /\ UNCHANGED <<rendered, loadPc, notCtx>>

\* (mutant) from the first exercise the position goes back to "none".
GoToPreviousExerciseBelowFirst ==
  /\ LET prevIndex == rendered.currentExerciseIndex - 1
     IN IF prevIndex >= -1
        THEN setCurrentExercise(prevIndex)
        ELSE UNCHANGED <<state, showExerciseModal>>
  /\ UNCHANGED <<showSummaryModal, rendered, loadPc, notCtx>>

\* const goToPreviousExercise (lines 300-305)
GoToPreviousExercise ==
  /\ LET prevIndex == rendered.currentExerciseIndex - 1
     IN IF prevIndex >= 0
        THEN setCurrentExercise(prevIndex)
        ELSE UNCHANGED <<state, showExerciseModal>>
  /\ UNCHANGED <<showSummaryModal, rendered, loadPc, notCtx>>

\* const resetWorkoutState (lines 310-314)
ResetWorkoutState ==
  /\ state' = workoutReducer(state, [type |-> "RESET_STATE"], "")
  /\ showExerciseModal' = FALSE
  /\ showSummaryModal' = FALSE
  /\ UNCHANGED <<rendered, loadPc, notCtx>>

\* setShowExerciseModal, as the context value exposes it (line 340)
SetShowExerciseModal(show) ==
  /\ showExerciseModal' = show
  /\ UNCHANGED <<state, showSummaryModal, rendered, loadPc, notCtx>>

\* setShowSummaryModal, as the context value exposes it (line 341)
SetShowSummaryModal(show) ==
  /\ showSummaryModal' = show
  /\ UNCHANGED <<state, showExerciseModal, rendered, loadPc, notCtx>>

\* loadCurrentWorkout up to `await getCurrentWorkout()` (lines 184-187)
LoadCurrentWorkoutStarts ==
  /\ loadPc = "mounted"
  /\ state' = workoutReducer(state, [type |-> "SET_LOADING", payload |-> TRUE], "")
  /\ loadPc' = "awaiting"
  /\ UNCHANGED <<showExerciseModal, showSummaryModal, rendered, notCtx>>

\* (mutant) a failed request is reported in the error field.
LoadCurrentWorkoutSettlesShowingError(result) ==
  /\ loadPc = "awaiting"
  /\ LET loaded ==
           IF /\ result.kind = "returned"
              /\ result.value.type = "object"
              /\ "success" \in DOMAIN result.value
              /\ result.value.success
              /\ "workout_plan" \in DOMAIN result.value
           THEN workoutReducer(state, [type |-> "SET_CURRENT_WORKOUT",
                                       payload |-> result.value.workout_plan], "")
           ELSE IF result.kind = "thrown"
                THEN workoutReducer(state, [type |-> "SET_ERROR",
                                            payload |-> [type |-> "string",
                                                         v |-> "Failed to load"]], "")
                ELSE state
     IN state' = workoutReducer(loaded, [type |-> "SET_LOADING", payload |-> FALSE], "")
  /\ loadPc' = "done"
  /\ UNCHANGED <<showExerciseModal, showSummaryModal, rendered, notCtx>>

\* loadCurrentWorkout after the request settled (lines 189-200)
LoadCurrentWorkoutSettles(result) ==
  /\ loadPc = "awaiting"
  /\ LET loaded ==
           IF /\ result.kind = "returned"
              /\ result.value.type = "object"             \* response &&
              /\ "success" \in DOMAIN result.value
              /\ result.value.success                      \* response.success &&
              /\ "workout_plan" \in DOMAIN result.value    \* response.workout_plan
           THEN workoutReducer(state, [type |-> "SET_CURRENT_WORKOUT",
                                       payload |-> result.value.workout_plan], "")
           ELSE state
     IN state' = workoutReducer(loaded, [type |-> "SET_LOADING", payload |-> FALSE], "")
  /\ loadPc' = "done"
  /\ UNCHANGED <<showExerciseModal, showSummaryModal, rendered, notCtx>>

\* ---- inputs of the provider functions ----
\* Two exercises of a plan day: one counted in reps, one timed.
CurlExercise  == [name |-> <<"A", " ", "b">>, sets |-> 3, reps |-> 12]
PlankExercise == [name |-> <<"B">>, reps |-> 0, is_timed |-> TRUE]

DayOf(exercises) ==
  [type |-> "object", day |-> "Day 1", exercises |-> [kind |-> "array", items |-> exercises]]

\* A workout plan as startWorkoutPlan and getCurrentWorkout return it.
PlanOf(id, days) == [type |-> "object", id |-> id, days |-> days]
PlanA == PlanOf(1, << DayOf(<<CurlExercise, PlankExercise>>) >>)

\* The sequences handed to setExerciseSequence.
Sequences ==
  { createExerciseSequence(DayOf(q)) : q \in { <<>>, <<CurlExercise, PlankExercise>> } }

\* The indexes handed to setCurrentExercise: before, inside and past a sequence.
Indexes == -1..2

\* The statistics handed to completeCurrentExercise: {} and {repCount, duration}.
NoStats == <<>>
FullStats == [repCount |-> 2, duration |-> 3]
ExerciseStats == { NoStats, FullStats }

Summary == [calories |-> 100]
FeedbackUpdate == [feedback |-> [squat |-> "keep your back straight"]]
Now == "2026-01-01T00:00:00.000Z"

\* What getCurrentWorkout() settles with.
LoadResults ==
  { [kind |-> "thrown"],
    [kind |-> "returned", value |-> JsonNull],
    [kind |-> "returned", value |-> [type |-> "object", success |-> TRUE,
                                     workout_plan |-> PlanA]],
    [kind |-> "returned", value |-> [type |-> "object", success |-> TRUE]],
    [kind |-> "returned", value |-> [type |-> "object", success |-> FALSE,
                                     workout_plan |-> PlanA]] }

\* The provider after its first render.
InitCtx ==
  /\ state = initialState
  /\ showExerciseModal = FALSE
  /\ showSummaryModal = FALSE
  /\ rendered = Closure(initialState)
  /\ loadPc = "mounted"

\* The provider once loadCurrentWorkout has settled without a plan.
InitLoaded ==
  /\ state = initialState
  /\ showExerciseModal = FALSE
  /\ showSummaryModal = FALSE
  /\ rendered = Closure(initialState)
  /\ loadPc = "done"

(***************************************************************************)
(* WorkoutPlanner (components/feedback/FeedbackDisplay.jsx, lines 417ff)   *)
(* under the routes of components/layout/Layout.jsx                        *)
(***************************************************************************)
\* The routes of the dashboard, the tracker and the planner.
Routes == {"/", "/exercise", "/workout"}

\* The app as it opens: the dashboard, no plan being started.
InitPln ==
  /\ route = "/"
  /\ plansStarting = 0

\* The user follows a link of the layout.
NavigateTo(path) ==
  /\ route # path
  /\ route' = path
  /\ UNCHANGED <<plansStarting, ctxVars, notPln>>

\* handleStartWorkout (lines 559-561), from the planner's page; its button
\* is disabled while the start request is in flight (line 796)
HandleStartWorkout ==
  /\ route = "/workout"
  /\ plansStarting = 0
  /\ plansStarting' = plansStarting + 1
  /\ UNCHANGED <<route, ctxVars, notPln>>

\* data.plan?.days?.length > 0
HasDays(plan) ==
  /\ plan.type = "object"
  /\ "days" \in DOMAIN plan
  /\ Len(plan.days) > 0

\* startPlanMutation onSuccess (lines 493-505): setCurrentWorkout, then
\* setExerciseSequence if the plan has a day, then navigate('/exercise')
StartPlanSucceeds(plan) ==
  /\ plansStarting > 0
  /\ plansStarting' = plansStarting - 1
  /\ LET current == workoutReducer(state, [type |-> "SET_CURRENT_WORKOUT",
                                           payload |-> plan], "")
     IN state' = IF HasDays(plan)
                 THEN workoutReducer(current,
                        [type |-> "SET_EXERCISE_SEQUENCE",
                         payload |-> createExerciseSequence(plan.days[1])], "")
                 ELSE current
  /\ route' = "/exercise"
  /\ UNCHANGED <<showExerciseModal, showSummaryModal, rendered, loadPc, notPln>>

\* The start request fails: startPlanMutation has no onError.
StartPlanFails ==
  /\ plansStarting > 0
  /\ plansStarting' = plansStarting - 1
  /\ UNCHANGED <<route, ctxVars, notPln>>

\* Plans as workout/plans/:id/start returns them: two days, one day, an
\* empty list of days, no list of days.
PlanTwoDays == PlanOf(2, << DayOf(<<PlankExercise>>), DayOf(<<CurlExercise>>) >>)
PlanNoDays == PlanOf(3, <<>>)
PlanWithoutDays == [type |-> "object", id |-> 4]
StartedPlans == { PlanA, PlanTwoDays, PlanNoDays, PlanWithoutDays }

(***************************************************************************)
(* ExerciseTracker (components/feedback/FeedbackDisplay.jsx, lines 934ff)  *)
(* and the query client it runs under (components/layout/Layout.jsx)       *)
(***************************************************************************)
\* refetchInterval: 500
RefetchInterval == 500
\* defaultOptions.queries.retry: 1
Retry == 1

TrackedExercises == {"squat", "plank"}

\* The tracker after its first render: the query is disabled and idle.
InitTrk ==
  /\ selectedExercise = "none"
  /\ exerciseActive = FALSE
  /\ exerciseCompleted = FALSE
  /\ exerciseResults = Null
  /\ exerciseData = Undefined
  /\ startsPending = 0
  /\ stopsPending = 0
  /\ pollPc = "idle"
  /\ failureCount = 0
  /\ sinceRefetch = 0
  /\ lastSettled = "none"

\* handleExerciseSelect (lines 1035-1038); the selector is shown while no
\* exercise is active or completed (line 1158)
HandleExerciseSelect(exercise) ==
  /\ ~exerciseActive /\ ~exerciseCompleted
  /\ selectedExercise' = exercise
  /\ UNCHANGED <<exerciseActive, exerciseCompleted, exerciseResults, exerciseData,
                 startsPending, stopsPending, pollPc, failureCount, sinceRefetch,
                 lastSettled, notTrk>>

\* handleStartExercise (lines 1041-1050); its button is shown with the selector
HandleStartExercise ==
  /\ ~exerciseActive /\ ~exerciseCompleted
  /\ selectedExercise # "none"
  /\ startsPending < MaxPending
  /\ startsPending' = startsPending + 1
  /\ UNCHANGED <<selectedExercise, exerciseActive, exerciseCompleted, exerciseResults,
                 exerciseData, stopsPending, pollPc, failureCount, sinceRefetch,
                 lastSettled, notTrk>>

\* startExerciseMutation onSuccess (lines 977-981).  When exerciseActive
\* becomes true the query is enabled: its timer is armed, and it fetches at
\* once if it is idle and its data is stale (staleTime: 30000; no data is
\* stale data).
StartExerciseSucceeds(stale) ==
  /\ startsPending > 0
  /\ exerciseData = Undefined => stale
  /\ startsPending' = startsPending - 1
  /\ exerciseActive' = TRUE
  /\ exerciseCompleted' = FALSE
  /\ exerciseResults' = Null
  /\ lastSettled' = "start succeeded"
  /\ IF exerciseActive
     THEN UNCHANGED <<pollPc, failureCount, sinceRefetch>>
     ELSE /\ sinceRefetch' = 0
          /\ IF stale /\ pollPc = "idle"
             THEN pollPc' = "requesting" /\ failureCount' = 0
             ELSE UNCHANGED <<pollPc, failureCount>>
  /\ UNCHANGED <<selectedExercise, exerciseData, stopsPending, notTrk>>

\* startExerciseMutation onError (lines 982-984)
StartExerciseFails ==
  /\ startsPending > 0
  /\ startsPending' = startsPending - 1
  /\ UNCHANGED <<selectedExercise, exerciseActive, exerciseCompleted, exerciseResults,
                 exerciseData, stopsPending, pollPc, failureCount, sinceRefetch,
                 lastSettled, notTrk>>

\* handleStopExercise (lines 1053-1055); its button is shown while active
HandleStopExercise ==
  /\ exerciseActive
  /\ stopsPending < MaxPending
  /\ stopsPending' = stopsPending + 1
  /\ UNCHANGED <<selectedExercise, exerciseActive, exerciseCompleted, exerciseResults,
                 exerciseData, startsPending, pollPc, failureCount, sinceRefetch,
                 lastSettled, notTrk>>

\* stopExerciseMutation onSuccess (lines 989-993).  With exerciseActive
\* false the query is disabled and its timer cleared; a fetch that is under
\* way is not cancelled.
StopExerciseSucceeds ==
  /\ stopsPending > 0
  /\ stopsPending' = stopsPending - 1
  /\ exerciseActive' = FALSE
  /\ exerciseCompleted' = TRUE
  /\ exerciseResults' = [type |-> "object", statistics |-> "stats"]
  /\ sinceRefetch' = 0
  /\ lastSettled' = "stop succeeded"
  /\ UNCHANGED <<selectedExercise, exerciseData, startsPending, pollPc, failureCount,
                 notTrk>>

\* stopExerciseMutation onError (lines 994-997)
StopExerciseFails ==
  /\ stopsPending > 0
  /\ stopsPending' = stopsPending - 1
  /\ exerciseActive' = FALSE
  /\ sinceRefetch' = 0
  /\ lastSettled' = "stop failed"
  /\ UNCHANGED <<selectedExercise, exerciseCompleted, exerciseResults, exerciseData,
                 startsPending, pollPc, failureCount, notTrk>>

\* handleResetExercise (lines 1058-1062); "New Exercise" is shown once an
\* exercise is completed
HandleResetExercise ==
  /\ exerciseCompleted
  /\ selectedExercise' = "none"
  /\ exerciseCompleted' = FALSE
  /\ exerciseResults' = Null
  /\ UNCHANGED <<exerciseActive, exerciseData, startsPending, stopsPending,
                 pollPc, failureCount, sinceRefetch, lastSettled, notTrk>>

\* Half a refetch interval passes while the query's timer is armed
\* (enabled: exerciseActive).
TimePasses ==
  /\ exerciseActive
  /\ sinceRefetch < RefetchInterval
  /\ sinceRefetch' = sinceRefetch + RefetchInterval \div 2
  /\ UNCHANGED <<selectedExercise, exerciseActive, exerciseCompleted, exerciseResults,
                 exerciseData, startsPending, stopsPending, pollPc, failureCount,
                 lastSettled, notTrk>>

\* The refetch timer of the query fires (lines 963-973): getExerciseData is
\* called unless a fetch of the query is still under way.
RefetchIntervalFires ==
  /\ exerciseActive
  /\ sinceRefetch = RefetchInterval
  /\ sinceRefetch' = 0
  /\ IF pollPc = "idle"
     THEN pollPc' = "requesting" /\ failureCount' = 0
     ELSE UNCHANGED <<pollPc, failureCount>>
  /\ UNCHANGED <<selectedExercise, exerciseActive, exerciseCompleted, exerciseResults,
                 exerciseData, startsPending, stopsPending, lastSettled, notTrk>>

\* The exercise/data request resolves with the tracking data.
PollResolves ==
  /\ pollPc = "requesting"
  /\ pollPc' = "idle"
  /\ exerciseData' = [type |-> "object", rep_count |-> 1]
  /\ UNCHANGED <<selectedExercise, exerciseActive, exerciseCompleted, exerciseResults,
                 startsPending, stopsPending, failureCount, sinceRefetch, lastSettled,
                 notTrk>>

\* The exercise/data request rejects: the fetch waits to retry while it has
\* failed less than `retry` times (Layout.jsx line 24), else it ends and
\* onError logs (lines 969-971).
PollRejects ==
  /\ pollPc = "requesting"
  /\ IF failureCount < Retry
     THEN pollPc' = "retry wait" /\ failureCount' = failureCount + 1
     ELSE pollPc' = "idle" /\ UNCHANGED failureCount
  /\ UNCHANGED <<selectedExercise, exerciseActive, exerciseCompleted, exerciseResults,
                 exerciseData, startsPending, stopsPending, sinceRefetch, lastSettled,
                 notTrk>>

\* The retry delay is over: the fetch calls getExerciseData again.  The
\* retry belongs to the fetch, whose query still has its observer; the
\* `enabled` option is not consulted.
PollRetries ==
  /\ pollPc = "retry wait"
  /\ pollPc' = "requesting"
  /\ UNCHANGED <<selectedExercise, exerciseActive, exerciseCompleted, exerciseResults,
                 exerciseData, startsPending, stopsPending, failureCount, sinceRefetch,
                 lastSettled, notTrk>>

NextTracker ==
  \/ \E e \in TrackedExercises : HandleExerciseSelect(e)
  \/ HandleStartExercise
  \/ \E stale \in BOOLEAN : StartExerciseSucceeds(stale)
  \/ StartExerciseFails
  \/ HandleStopExercise
  \/ StopExerciseSucceeds
  \/ StopExerciseFails
  \/ HandleResetExercise
  \/ TimePasses
  \/ RefetchIntervalFires
  \/ PollResolves
  \/ PollRejects
  \/ PollRetries

InitTracker == ApiIdle /\ SeqIdle /\ InitLoaded /\ InitTrk /\ InitPln

SpecTracker == InitTracker /\ [][NextTracker]_vars

\* Every operation of the provider, from its first render on.
Next ==
  \/ Render
  \/ LoadCurrentWorkoutStarts
  \/ \E r \in LoadResults : LoadCurrentWorkoutSettles(r)
  \/ SetCurrentWorkout(PlanA)
  \/ \E q \in Sequences : SetExerciseSequence(q)
  \/ \E i \in Indexes : SetCurrentExercise(i)
  \/ CompleteCurrentExercise(FullStats)
  \/ StartWorkoutSession(Now)
  \/ EndWorkoutSession(Summary, Now)
  \/ UpdateSessionStats(FeedbackUpdate)
  \/ GoToNextExercise
  \/ GoToPreviousExercise
  \/ ResetWorkoutState
  \/ \E b \in BOOLEAN : SetShowExerciseModal(b)
  \/ \E b \in BOOLEAN : SetShowSummaryModal(b)

Init == ApiIdle /\ SeqIdle /\ InitCtx /\ InitTrk /\ InitPln

Spec == Init /\ [][Next]_vars

\* The exercise session: the operations on the exercise sequence, the
\* position in it, the session statistics and the modals, after the load.
NextSession ==
  \/ Render
  \/ \E q \in Sequences : SetExerciseSequence(q)
  \/ \E i \in Indexes : SetCurrentExercise(i)
  \/ \E s \in ExerciseStats : CompleteCurrentExercise(s)
  \/ StartWorkoutSession(Now)
  \/ EndWorkoutSession(Summary, Now)
  \/ UpdateSessionStats(FeedbackUpdate)
  \/ GoToNextExercise
  \/ GoToPreviousExercise
  \/ ResetWorkoutState
  \/ \E b \in BOOLEAN : SetShowExerciseModal(b)
  \/ \E b \in BOOLEAN : SetShowSummaryModal(b)

InitSession == ApiIdle /\ SeqIdle /\ InitLoaded /\ InitTrk /\ InitPln

SpecSession == InitSession /\ [][NextSession]_vars

\* ---- workoutReducer as a function: one action of each type dispatched ----
ErrorMessage == [type |-> "string", v |-> "Failed to load"]

DispatchSetCurrentWorkout ==
  /\ \E w \in {Null, PlanA} :
       state' = workoutReducer(state, [type |-> "SET_CURRENT_WORKOUT", payload |-> w], Now)
  /\ UNCHANGED <<showExerciseModal, showSummaryModal, rendered, loadPc, notCtx>>

DispatchSetExerciseSequence ==
  /\ \E q \in Sequences :
       state' = workoutReducer(state, [type |-> "SET_EXERCISE_SEQUENCE", payload |-> q], Now)
  /\ UNCHANGED <<showExerciseModal, showSummaryModal, rendered, loadPc, notCtx>>

DispatchSetCurrentExercise ==
  /\ \E i \in Indexes :
       state' = workoutReducer(state, [type |-> "SET_CURRENT_EXERCISE", payload |-> i], Now)
  /\ UNCHANGED <<showExerciseModal, showSummaryModal, rendered, loadPc, notCtx>>

DispatchCompleteExercise ==
  /\ state.sessionStats.completedExercises < MaxCompleted
  /\ \E i \in Indexes, s \in ExerciseStats :
       state' = workoutReducer(state, [type |-> "COMPLETE_EXERCISE",
                                       payload |-> [exerciseIndex |-> i, stats |-> s]], Now)
  /\ UNCHANGED <<showExerciseModal, showSummaryModal, rendered, loadPc, notCtx>>

DispatchStartSession ==
  /\ state' = workoutReducer(state, [type |-> "START_SESSION"], Now)
  /\ UNCHANGED <<showExerciseModal, showSummaryModal, rendered, loadPc, notCtx>>

DispatchEndSession ==
  /\ state' = workoutReducer(state, [type |-> "END_SESSION", payload |-> Summary], Now)
  /\ UNCHANGED <<showExerciseModal, showSummaryModal, rendered, loadPc, notCtx>>

DispatchUpdateSessionStats ==
  /\ state' = workoutReducer(state, [type |-> "UPDATE_SESSION_STATS",
                                     payload |-> FeedbackUpdate], Now)
  /\ UNCHANGED <<showExerciseModal, showSummaryModal, rendered, loadPc, notCtx>>

DispatchSetLoading ==
  /\ \E b \in BOOLEAN :
       state' = workoutReducer(state, [type |-> "SET_LOADING", payload |-> b], Now)
  /\ UNCHANGED <<showExerciseModal, showSummaryModal, rendered, loadPc, notCtx>>

DispatchSetError ==
  /\ \E e \in {Null, ErrorMessage} :
       state' = workoutReducer(state, [type |-> "SET_ERROR", payload |-> e], Now)
  /\ UNCHANGED <<showExerciseModal, showSummaryModal, rendered, loadPc, notCtx>>

DispatchResetState ==
  /\ state' = workoutReducer(state, [type |-> "RESET_STATE"], Now)
  /\ UNCHANGED <<showExerciseModal, showSummaryModal, rendered, loadPc, notCtx>>

\* An action whose type is none of ActionTypes (the default case).
DispatchUnknown ==
  /\ state' = workoutReducer(state, [type |-> "@@INIT", payload |-> Summary], Now)
  /\ UNCHANGED <<showExerciseModal, showSummaryModal, rendered, loadPc, notCtx>>

NextReducer ==
  \/ DispatchSetCurrentWorkout
  \/ DispatchSetExerciseSequence
  \/ DispatchSetCurrentExercise
  \/ DispatchCompleteExercise
  \/ DispatchStartSession
  \/ DispatchEndSession
  \/ DispatchUpdateSessionStats
  \/ DispatchSetLoading
  \/ DispatchSetError
  \/ DispatchResetState
  \/ DispatchUnknown

InitReducer == ApiIdle /\ SeqIdle /\ InitLoaded /\ InitTrk /\ InitPln

SpecReducer == InitReducer /\ [][NextReducer]_vars

InitSeqSpec == ApiIdle /\ InitSeq /\ InitCtx /\ InitTrk /\ InitPln

SpecSeq == InitSeqSpec /\ [][NextSeq]_vars

\* The planner and the exercise session it hands over to.
NextPlanner ==
  \/ \E path \in Routes : NavigateTo(path)
  \/ HandleStartWorkout
  \/ \E plan \in StartedPlans : StartPlanSucceeds(plan)
  \/ StartPlanFails
  \/ Render
  \/ \E i \in Indexes : SetCurrentExercise(i)
  \/ GoToNextExercise
  \/ GoToPreviousExercise

InitPlanner == ApiIdle /\ SeqIdle /\ InitLoaded /\ InitTrk /\ InitPln

SpecPlanner == InitPlanner /\ [][NextPlanner]_vars

NextApi ==
  \/ CallFetchApi
  \/ CallGet
  \/ CallPost
  \/ CallPut
  \/ CallPatch
  \/ CallDel
  \/ FetchSettles

InitApiSpec == InitApi /\ SeqIdle /\ InitCtx /\ InitTrk /\ InitPln

SpecApi == InitApiSpec /\ [][NextApi]_vars

(***************************************************************************)
(* Claims about services/api.js (checked under SpecApi)                    *)
(***************************************************************************)
Settled == apiPc = "settled"

\* C1: every call of fetchApi, direct or through get/post/put/patch/del,
\* hands exactly one request to fetch, whatever the request's outcome: the
\* number of requests sent always equals the number of calls made.
C1_OneRequestPerCall == requestsSent = callsStarted

\* A call whose request failed at the network level has settled, and still
\* only one request was sent for it.
C1_Witness ==
  /\ Settled
  /\ apiResponse = NetworkFailure
  /\ apiResult.kind = "thrown"
  /\ callsStarted = 1
  /\ requestsSent = 1

\* fetchApi reads the body as JSON: the response is ok, not empty, and its
\* content-type contains application/json.
ReadsJson(r) ==
  /\ r.ok
  /\ r.status # 204
  /\ ~(r.contentLength.present /\ r.contentLength.v = "0")
  /\ r.contentType.present
  /\ \E i \in 1..Len(r.contentType.v) : r.contentType.v[i] = "application/json"

\* The three failures of a call: fetch rejected, the status is not ok, or
\* the body of an ok response was read as JSON and did not parse.
Failed(r) ==
  \/ r.network = "failed"
  \/ ~r.ok
  \/ ReadsJson(r) /\ ~r.body.parses

\* C2: every failure of fetchApi reaches the caller as a thrown error, and
\* that error carries the endpoint argument and the request (the url and
\* the config handed to fetch).
C2_FailureRethrownAnnotated ==
  (Settled /\ Failed(apiResponse)) =>
    /\ apiResult.kind = "thrown"
    /\ "endpoint" \in DOMAIN apiResult.error
    /\ apiResult.error.endpoint = apiEndpoint
    /\ "request" \in DOMAIN apiResult.error
    /\ apiResult.error.request.url = apiRequest.url
    /\ \A f \in DOMAIN apiRequest.config :
         /\ f \in DOMAIN apiResult.error.request
         /\ apiResult.error.request[f] = apiRequest.config[f]

\* An ok response whose JSON body did not parse was thrown to the caller.
C2_Witness ==
  /\ Settled
  /\ apiResponse.network = "ok"
  /\ apiResponse.ok
  /\ ReadsJson(apiResponse)
  /\ ~apiResponse.body.parses
  /\ apiResult.kind = "thrown"
  /\ apiResult.error.name = "SyntaxError"
  /\ "body" \in DOMAIN apiRequest.config

\* The data the claim gives the error of a non-ok response.
ClaimedErrorData(r) ==
  IF r.body.parses THEN r.body.json ELSE [type |-> "object", error |-> r.statusText]

\* C3: for a response that is not ok, fetchApi rejects with an error whose
\* status and statusText are the response's, whose data is the JSON body
\* when it parses and {error: statusText} otherwise, and whose message is
\* data.error when non-empty and 'API request failed' otherwise.
C3_NotOkRejectsDetailed ==
  (Settled /\ apiResponse.network = "ok" /\ ~apiResponse.ok) =>
    /\ apiResult.kind = "thrown"
    /\ LET e == apiResult.error
           data == ClaimedErrorData(apiResponse)
       IN /\ {"status", "statusText", "data"} \subseteq DOMAIN e
          /\ e.status = apiResponse.status
          /\ e.statusText = apiResponse.statusText
          /\ e.data = data
          /\ e.message = IF "error" \in DOMAIN data /\ data.error # ""
                         THEN data.error ELSE "API request failed"

\* C4: for an ok response fetchApi returns null when the status is 204 or
\* content-length is '0'; else the parsed JSON body when content-type
\* contains 'application/json' (and the body parses); else the text body,
\* also when there is no content-type header.
C4_OkResponsePrecedence ==
  (Settled /\ apiResponse.network = "ok" /\ apiResponse.ok) =>
    LET r == apiResponse
        empty == r.status = 204 \/ r.contentLength = [present |-> TRUE, v |-> "0"]
    IN /\ empty => apiResult = [kind |-> "returned", value |-> JsonNull]
       /\ (~empty /\ ReadsJson(r) /\ r.body.parses) =>
            apiResult = [kind |-> "returned", value |-> r.body.json]
       /\ (~empty /\ ~ReadsJson(r)) =>
            apiResult = [kind |-> "returned",
                         value |-> [type |-> "text", text |-> r.body.text]]

\* An ok response with content-length '0' and a JSON content-type has
\* settled: the empty-response rule won over the JSON rule.
C4_Witness ==
  /\ Settled
  /\ apiResponse.network = "ok"
  /\ apiResponse.status = 200
  /\ apiResponse.contentLength = [present |-> TRUE, v |-> "0"]
  /\ apiResponse.contentType = [present |-> TRUE, v |-> <<"application/json">>]
  /\ apiResponse.body.parses
  /\ apiResponse.body.json = ObjErr
  /\ apiResult.kind = "returned"

(***************************************************************************)
(* Claims about createExerciseSequence (checked under SpecSeq)             *)
(***************************************************************************)
HasExerciseArray(day) ==
  /\ day.type = "object"
  /\ "exercises" \in DOMAIN day
  /\ day.exercises.kind = "array"

\* C5: createExerciseSequence(day) returns one item per element of
\* day.exercises, in the same order and with the same name, each with
\* completed = false; it returns the empty list when day is missing, has no
\* exercises field, or exercises is not an array.
C5_OneItemPerExercise ==
  seqPc = "returned" =>
    IF HasExerciseArray(seqDay)
    THEN /\ Len(seqOut) = Len(seqDay.exercises.items)
         /\ \A i \in 1..Len(seqOut) :
              /\ seqOut[i].name = seqDay.exercises.items[i].name
              /\ seqOut[i].completed = FALSE
    ELSE seqOut = <<>>

\* A day of two different exercises, the first without reps, has been
\* turned into a sequence.
C5_Witness ==
  /\ seqPc = "returned"
  /\ HasExerciseArray(seqDay)
  /\ Len(seqDay.exercises.items) = 2
  /\ "reps" \notin DOMAIN seqDay.exercises.items[1]
  /\ seqDay.exercises.items[1].name # seqDay.exercises.items[2].name
  /\ Len(seqOut) = 2
  /\ seqOut[1].id = <<"a", "_", "b">>

(***************************************************************************)
(* Claims about the WorkoutProvider functions                              *)
(***************************************************************************)
\* stats.repCount and stats.duration, 0 when absent
StatOf(stats, f) == IF f \in DOMAIN stats THEN stats[f] ELSE 0

C6_Completes(stats) ==
  LET i == state.currentExerciseIndex
      before == state.exerciseSequence
      after == state'.exerciseSequence
  IN \* the function reads the position the state holds (no update is queued)
     rendered.currentExerciseIndex = i =>
       /\ (i >= 0 /\ i < Len(before)) =>
            /\ Len(after) = Len(before)
            /\ state'.currentExerciseIndex = i
            /\ after[i + 1].completed = TRUE
            /\ "results" \in DOMAIN after[i + 1]
            /\ after[i + 1].results = stats
            /\ \A j \in 1..Len(before) : j # i + 1 => after[j] = before[j]
            /\ state'.sessionStats.totalReps =
                 state.sessionStats.totalReps + StatOf(stats, "repCount")
            /\ state'.sessionStats.totalDuration =
                 state.sessionStats.totalDuration + StatOf(stats, "duration")
       /\ i = -1 =>
            UNCHANGED <<state, showExerciseModal, showSummaryModal>>

OnlyChanges(fields) ==
  /\ DOMAIN state' = DOMAIN state
  /\ \A f \in DOMAIN state \ fields : state'[f] = state[f]

KeepsSequenceAndPosition ==
  /\ state'.exerciseSequence = state.exerciseSequence
  /\ state'.currentExerciseIndex = state.currentExerciseIndex

\* C7: each reducer action changes only the fields it sets: SET_CURRENT_WORKOUT
\* only currentWorkout and error; SET_EXERCISE_SEQUENCE only exerciseSequence,
\* currentExerciseIndex and activeExercise; SET_CURRENT_EXERCISE only
\* currentExerciseIndex and activeExercise; SET_LOADING only isLoading;
\* SET_ERROR only error and isLoading; UPDATE_SESSION_STATS, START_SESSION and
\* END_SESSION never touch exerciseSequence or currentExerciseIndex; an action
\* of unknown type returns the state unchanged.
C7_ReducerFrames ==
  [][/\ DispatchSetCurrentWorkout => OnlyChanges({"currentWorkout", "error"})
     /\ DispatchSetExerciseSequence =>
          OnlyChanges({"exerciseSequence", "currentExerciseIndex", "activeExercise"})
     /\ DispatchSetCurrentExercise =>
          OnlyChanges({"currentExerciseIndex", "activeExercise"})
     /\ DispatchSetLoading => OnlyChanges({"isLoading"})
     /\ DispatchSetError => OnlyChanges({"error", "isLoading"})
     /\ DispatchUpdateSessionStats => KeepsSequenceAndPosition
     /\ DispatchStartSession => KeepsSequenceAndPosition
     /\ DispatchEndSession => KeepsSequenceAndPosition
     /\ DispatchUnknown => state' = state]_vars

\* A state in which every field differs from its initial value: each of the
\* actions above is dispatched from it.
C7_Witness ==
  /\ state.currentWorkout # Null
  /\ state.error # Null
  /\ state.isLoading
  /\ Len(state.exerciseSequence) = 2
  /\ state.currentExerciseIndex = 1
  /\ state.activeExercise # Null
  /\ state.sessionStartTime # Null
  /\ state.sessionStats.completedExercises = 2
  /\ "summary" \in DOMAIN state.sessionStats

\* C9: after resetWorkoutState, whatever came before, currentWorkout is null,
\* exerciseSequence is empty, currentExerciseIndex is -1, activeExercise and
\* sessionStartTime are null, sessionStats has zero counters and no endTime or
\* summary, isLoading is false, error is null, and both modals are closed.
C9_ResetIsComplete ==
  [][ResetWorkoutState =>
       /\ state'.currentWorkout = Null
       /\ state'.exerciseSequence = <<>>
       /\ state'.currentExerciseIndex = -1
       /\ state'.activeExercise = Null
       /\ state'.sessionStartTime = Null
       /\ state'.sessionStats.completedExercises = 0
       /\ state'.sessionStats.totalReps = 0
       /\ state'.sessionStats.totalDuration = 0
       /\ DOMAIN state'.sessionStats =
            {"completedExercises", "totalReps", "totalDuration", "feedback"}
       /\ DOMAIN state'.sessionStats.feedback = {}
       /\ state'.isLoading = FALSE
       /\ state'.error = Null
       /\ showExerciseModal' = FALSE
       /\ showSummaryModal' = FALSE]_vars

\* The state is the initial one although the load is still awaited (it set
\* isLoading) and the functions of the last render still see the second of
\* two exercises: a reset has just undone a session in progress.
C9_Witness ==
  /\ loadPc = "awaiting"
  /\ rendered.exerciseSequenceLength = 2
  /\ rendered.currentExerciseIndex = 1
  /\ state = initialState
  /\ ~showExerciseModal
  /\ ~showSummaryModal

C12_SetSequenceRestarts ==
  [][\A sequence \in Sequences :
       SetExerciseSequence(sequence) =>
         /\ state'.exerciseSequence = sequence
         /\ state'.currentExerciseIndex = -1
         /\ state'.activeExercise = Null]_vars

\* A sequence of two exercises has been set while the second exercise of the
\* previous sequence was the current one (as the last render still shows):
\* the position is back to none.
C12_Witness ==
  /\ Len(state.exerciseSequence) = 2
  /\ state.currentExerciseIndex = -1
  /\ state.activeExercise = Null
  /\ rendered.currentExerciseIndex = 1
  /\ rendered.exerciseSequenceLength = 2
  /\ showExerciseModal

\* C13: after setCurrentExercise(index) the exercise modal is shown if and
\* only if index is a valid position of the exercise sequence held in the
\* workout state, equivalently if and only if activeExercise is non-null
\* after the call; in every order of setExerciseSequence and
\* setCurrentExercise, a re-render in between or not.
C13_ModalIffValidIndex ==
  [][\A index \in Indexes :
       SetCurrentExercise(index) =>
         /\ showExerciseModal' <=> (index >= 0 /\ index < Len(state.exerciseSequence))
         /\ showExerciseModal' <=> (state'.activeExercise # Null)]_vars

\* C14: startWorkoutSession starts a new session: afterwards
\* sessionStartTime is set and sessionStats is exactly {completedExercises: 0,
\* totalReps: 0, totalDuration: 0, feedback: {}}, with no endTime and no
\* summary of a previous session, whatever was accumulated before.
C14_StartSessionIsFresh ==
  [][StartWorkoutSession(Now) =>
       /\ state'.sessionStartTime = IsoString(Now)
       /\ state'.sessionStartTime # Null
       /\ state'.sessionStats = [completedExercises |-> 0, totalReps |-> 0,
                                 totalDuration |-> 0, feedback |-> <<>>]
       /\ DOMAIN state'.sessionStats =
            {"completedExercises", "totalReps", "totalDuration", "feedback"}]_vars

\* A session has been started after a previous one was ended: an exercise of
\* the sequence is completed and the summary modal of the previous session is
\* still open, and the statistics are those of a new session.
C14_Witness ==
  /\ state.sessionStartTime # Null
  /\ state.sessionStats = initialState.sessionStats
  /\ \E k \in 1..Len(state.exerciseSequence) : state.exerciseSequence[k].completed
  /\ showSummaryModal

\* C15: endWorkoutSession(summary) ends the current session with the
\* summary: afterwards sessionStats.summary is the given summary,
\* sessionStats.endTime is set, the counters completedExercises, totalReps
\* and totalDuration keep the values they had, activeExercise is null and
\* the summary modal is open.
C15_EndSessionKeepsCounters ==
  [][EndWorkoutSession(Summary, Now) =>
       /\ "summary" \in DOMAIN state'.sessionStats
       /\ state'.sessionStats.summary = Summary
       /\ "endTime" \in DOMAIN state'.sessionStats
       /\ state'.sessionStats.endTime = IsoString(Now)
       /\ \A f \in {"completedExercises", "totalReps", "totalDuration"} :
            state'.sessionStats[f] = state.sessionStats[f]
       /\ state'.activeExercise = Null
       /\ showSummaryModal' = TRUE]_vars

\* The session was ended while the first exercise was the current one and
\* one exercise with 2 reps in 3 seconds was counted: the counters are kept
\* next to the summary, no exercise is active and the summary modal is open.
C15_Witness ==
  /\ "summary" \in DOMAIN state.sessionStats
  /\ state.sessionStats.summary = Summary
  /\ state.sessionStats.completedExercises = 1
  /\ state.sessionStats.totalReps = 2
  /\ state.sessionStats.totalDuration = 3
  /\ state.currentExerciseIndex = 0
  /\ state.activeExercise = Null
  /\ showSummaryModal

(***************************************************************************)
(* Claims about the load on mount (checked under Spec)                     *)
(***************************************************************************)
\* The response has success and a workout_plan.
HasWorkoutPlan(result) ==
  /\ result.kind = "returned"
  /\ result.value.type = "object"
  /\ "success" \in DOMAIN result.value
  /\ result.value.success
  /\ "workout_plan" \in DOMAIN result.value

\* C16: on mounting WorkoutProvider isLoading becomes true; once the
\* getCurrentWorkout request settles it becomes false in every outcome;
\* currentWorkout is set (to the plan of the response) only when the response
\* has success and a workout_plan; and when the request fails the error
\* field stays null.
C16_LoadOnMount ==
  [][/\ LoadCurrentWorkoutStarts => state'.isLoading = TRUE
     /\ \A result \in LoadResults :
          LoadCurrentWorkoutSettles(result) =>
            /\ state'.isLoading = FALSE
            /\ state'.currentWorkout =
                 IF HasWorkoutPlan(result) THEN result.value.workout_plan
                                           ELSE state.currentWorkout
            /\ result.kind = "thrown" => state'.error = Null]_vars

\* The load has settled with a plan: the plan is the current workout of a
\* provider that is otherwise as it was mounted, and nothing is loading.
C16_Witness ==
  /\ loadPc = "done"
  /\ state = [initialState EXCEPT !.currentWorkout = PlanA]
  /\ ~showExerciseModal /\ ~showSummaryModal

(***************************************************************************)
(* Claims about the WorkoutPlanner (checked under SpecPlanner)             *)
(***************************************************************************)
\* The sequence of the plan's first day; none when the plan has no day.
SequenceOfFirstDay(plan) ==
  IF HasDays(plan) THEN createExerciseSequence(plan.days[1]) ELSE <<>>

\* C17: after a workout plan is started successfully from the planner,
\* currentWorkout is the returned plan, exerciseSequence is the sequence
\* created from the first day of that same plan with currentExerciseIndex -1,
\* and the app is at /exercise; the sequence of a previously started plan
\* never remains in place.
C17_StartedPlanReplacesSequence ==
  [][\A plan \in StartedPlans :
       StartPlanSucceeds(plan) =>
         /\ state'.currentWorkout = plan
         /\ state'.exerciseSequence = SequenceOfFirstDay(plan)
         /\ HasDays(plan) => state'.currentExerciseIndex = -1
         /\ route' = "/exercise"]_vars

(***************************************************************************)
(* Claims about the ExerciseTracker poll (checked under SpecTracker)       *)
(***************************************************************************)
\* A request for exercise/data is started by this step.
PollStarts == pollPc # "requesting" /\ pollPc' = "requesting"

\* C8: exercise-data poll requests are started only while exerciseActive is
\* true: none before a start request has succeeded, and none after a stop
\* request has succeeded or failed until the next successful start.
C8_PollsOnlyWhileActive ==
  [][PollStarts => exerciseActive' /\ lastSettled' = "start succeeded"]_vars

====
